---- MODULE Spec2Model ----
(***************************************************************************)
(* Model of the chorus storage migration engine                           *)
(* (chorus-lib/src/store/migrations.rs).                                   *)
(*                                                                         *)
(* The committed LMDB environment is `db`; the single write transaction's  *)
(* working view is `txn` (equal to `db` whenever no writer is active).     *)
(* Every `?` of the source is a point where the call may return Err: the   *)
(* RwTxn is then dropped, which aborts it.  A panic unwinds the same way.  *)
(***************************************************************************)
EXTENDS Integers, Sequences, FiniteSets, TLC

\* ---------------------------------------------------------------- bounds
MaxEvents == 2        \* events present in the log / i_index at start
MaxCalls == 2         \* migrate calls issued in one behaviour
MaxStoredLevel == 6   \* largest well-formed stored migration_level drawn
MaxConns == 3         \* connections the listener hands out

\* ------------------------------------------------------------- constants
CURRENT_MIGRATION_LEVEL == 5
IdLen == 32
LevelLen == 4
Half == 256 * 256          \* a u32 is held as <<high, low>> 16-bit halves

Procs == {1, 2}

\* --------------------------------------------------------- byte helpers
Min(a, b) == IF a < b THEN a ELSE b

RECURSIVE to_be_bytes(_, _)
\* n.to_be_bytes() on a w-byte unsigned integer
to_be_bytes(n, w) ==
    IF w = 0 THEN << >>
    ELSE to_be_bytes(n \div 256, w - 1) \o <<n % 256>>

\* ---- u32 arithmetic on <<high, low>> halves
U32Of(n) == <<n \div Half, n % Half>>

\* u32::from_be_bytes(b) for a four-byte array
u32_from_be_bytes(b) == <<b[1] * 256 + b[2], b[3] * 256 + b[4]>>

\* x.to_be_bytes() for a u32
u32_to_be_bytes(x) == <<x[1] \div 256, x[1] % 256, x[2] \div 256, x[2] % 256>>

u32_lt(a, b) == a[1] < b[1] \/ (a[1] = b[1] /\ a[2] < b[2])

\* a + 1, wrapping at 2^32
u32_add1(a) ==
    IF a[2] < Half - 1 THEN <<a[1], a[2] + 1>>
    ELSE IF a[1] < Half - 1 THEN <<a[1] + 1, 0>>
    ELSE <<0, 0>>

U32_MAX == <<Half - 1, Half - 1>>

RECURSIVE from_be_bytes(_)
\* the number a short big-endian byte string stands for
from_be_bytes(b) ==
    IF Len(b) = 0 THEN 0
    ELSE 256 * from_be_bytes(SubSeq(b, 1, Len(b) - 1)) + b[Len(b)]

\* lexicographic byte order, the key order of every LMDB table
LexLess(a, b) ==
    \E i \in 1..(Min(Len(a), Len(b)) + 1) :
        /\ \A j \in 1..(i - 1) : a[j] = b[j]
        /\ \/ (i <= Len(a) /\ i <= Len(b) /\ a[i] < b[i])
           \/ (i = Len(a) + 1 /\ i <= Len(b))

RECURSIVE SortedKeys(_)
\* the keys of a Unit-valued table in cursor order
SortedKeys(S) ==
    IF S = {} THEN << >>
    ELSE LET m == CHOOSE x \in S : \A y \in S \ {x} : LexLess(x, y)
         IN  <<m>> \o SortedKeys(S \ {m})

RECURSIVE SortedEntries(_)
\* the <<key, value>> entries of a table in cursor order
SortedEntries(T) ==
    IF T = {} THEN << >>
    ELSE LET m == CHOOSE x \in T : \A y \in T \ {x} : LexLess(x[1], y[1])
         IN  <<m>> \o SortedEntries(T \ {m})

\* heed Database::put: insert or overwrite the value under `key`
Put(T, key, val) == {e \in T : e[1] # key} \cup {<<key, val>>}

Keys(T) == {e[1] : e \in T}
Values(T) == {e[2] : e \in T}

\* ------------------------------------------------------------ test data
\* Event ids differ in their last byte, so that cursor order is decided by
\* a full lexicographic comparison.
IdOf(i) == [j \in 1..IdLen |-> IF j = IdLen THEN i ELSE 0]
PubkeyOf(i) == [j \in 1..IdLen |-> IF j = 1 THEN 16 + (i % 2) ELSE 7]
OffsetOf(i) == 64 * i

\* tags: each tag is a sequence of byte strings
TagsOf(i) ==
    CASE i = 1 -> << << <<101>>, <<97, 98, 99, 100>> >>,          \* ["e","abcd"]
                     << <<101, 120, 112>>, <<49, 50, 51>> >> >>   \* ["exp","123"]
      [] i = 2 -> << << <<112>> >>,                               \* ["p"]
                     << <<116>>, <<120>>, <<121>> >>,             \* ["t","x","y"]
                     << >> >>                                     \* []
      [] i = 3 -> << << <<100>>, << >> >> >>                      \* ["d",""]
      [] OTHER -> << >>

EventOf(i) ==
    [id |-> IdOf(i), pubkey |-> PubkeyOf(i),
     created_at |-> IF i % 2 = 1 THEN 100 * i ELSE 150 * i,
     tags |-> TagsOf(i)]

\* ids and keys of the legacy tombstone table `deleted-events`
ID_A == [j \in 1..IdLen |-> 170]
ID_B == [j \in 1..IdLen |-> IF j = 1 THEN 187 ELSE 1]
ID_C == [j \in 1..IdLen |-> 204]
ShortKey == <<1, 2, 3>>

\* ------------------------------------------------- composite index keys
key_ci_index(created_at, id) == to_be_bytes(created_at, 8) \o id

key_ac_index(pubkey, created_at, id) ==
    pubkey \o to_be_bytes(created_at, 8) \o id

key_tc_index(letter, tagvalue, created_at, id) ==
    <<letter>> \o tagvalue \o to_be_bytes(created_at, 8) \o id

\* the tags of an event that the tag index covers: a one-byte name
\* followed by a value
IndexedTags(event) ==
    {k \in 1..Len(event.tags) :
        /\ Len(event.tags[k]) >= 1
        /\ Len(event.tags[k][1]) = 1
        /\ Len(event.tags[k]) >= 2}

\* secondary indexes of a database whose events were all ingested at or
\* above the level that introduced the index
CiOf(i_index, log) ==
    {<<key_ci_index(log[e[2]].created_at, log[e[2]].id), e[2]>> : e \in i_index}

AcOf(i_index, log) ==
    {<<key_ac_index(log[e[2]].pubkey, log[e[2]].created_at, log[e[2]].id), e[2]>> :
        e \in i_index}

TcOf(i_index, log) ==
    UNION {{<<key_tc_index(log[e[2]].tags[k][1][1], log[e[2]].tags[k][2],
                           log[e[2]].created_at, log[e[2]].id), e[2]>> :
                k \in IndexedTags(log[e[2]])} : e \in i_index}

\* ---------------------------------------------------------------- state
VARIABLES
    db,               \* committed content of the LMDB environment
    events,           \* the event log: offset -> event
    txn,              \* working view of the write transaction
    writer,           \* process holding the write transaction, 0 if none
    pc,               \* position of each process inside migrate
    migration_level,  \* local `migration_level` of each migrate call
    level,            \* `level` argument of the running migrate_to, else 0
    iter,             \* entries the open cursor has not yet yielded
    ids,              \* local `ids: Vec<Id>` of migrate_to_5
    invoked,          \* levels passed to migrate_to by the current/last call
    result,           \* how the last migrate call of each process ended
    failed_at,        \* level of the step that was running when it ended
    snap,             \* snapshot held by an open read transaction
    calls,            \* migrate calls issued so far
    applied,          \* steps whose effects are committed
    txn_done,         \* steps completed inside the write transaction
    db0,              \* content of the environment when it was opened
    after_ok          \* the call was issued after a migrate had returned Ok

\* the Blossom request handler (web/blossom/mod.rs)
VARIABLES
    b_req,            \* the request being handled: path and method
    b_pc,             \* position inside handle / route / the handlers
    b_hash,           \* local `hash` of handle_hash
    b_auth,           \* local `auth_data`, once verify_auth returned Ok
    b_err,            \* the Err a handler returned to route and handle
    b_out,            \* what handle() returned for the last request
    b_handler,        \* the handlers route called for this request
    b_mut,            \* filestore.delete / filestore.store calls it made
    b_blobs,          \* hashes of the blobs the filestore holds
    b_blobs0          \* the same when the request arrived

\* the relay's main task and the tasks it spawns (main.rs)
VARIABLES
    r_pc,             \* position of main
    r_use_tls,        \* config.use_tls
    r_store,          \* GLOBALS.store is set
    r_listener,       \* the TcpListener is bound
    r_accepted,       \* connections listener.accept() has returned
    r_task,           \* state of the task(s) spawned for each connection
    r_logged,         \* connections whose failure was logged by a task
    r_after_failure,  \* connections accepted after another one had failed
    r_exit            \* why main returned, "running" while it has not

store_vars == <<db, events, txn, writer, pc, migration_level, level, iter, ids,
                invoked, result, failed_at, snap, calls, applied, txn_done, db0,
                after_ok>>

blossom_vars == <<b_req, b_pc, b_hash, b_auth, b_err, b_out, b_handler, b_mut,
                  b_blobs, b_blobs0>>

relay_vars == <<r_pc, r_use_tls, r_store, r_listener, r_accepted, r_task,
                r_logged, r_after_failure, r_exit>>

\* what the storage core leaves alone
web_vars == <<blossom_vars, relay_vars>>

vars == <<store_vars, web_vars>>

NoTable == [exists |-> FALSE, keys |-> {}]
Table(K) == [exists |-> TRUE, keys |-> K]

NoSnap == << >>

\* general.get(&txn, b"migration_level")
general_get(view) ==
    IF \E e \in view.general : e[1] = "migration_level"
    THEN <<(CHOOSE e \in view.general : e[1] = "migration_level")[2]>>
    ELSE << >>

\* the level a stored value stands for (absent or unreadable: 0;
\* levels of 2^31 and above are reported as 2^31 - 1)
StoredLevel(view) ==
    LET g == general_get(view)
    IN  IF g = << >> THEN 0
        ELSE IF Len(g[1]) < LevelLen THEN 0
        ELSE IF g[1][1] >= 128 THEN 2147483647
        ELSE from_be_bytes(SubSeq(g[1], 1, LevelLen))

StoredValues ==
    {to_be_bytes(v, LevelLen) : v \in 0..MaxStoredLevel}
        \cup {u32_to_be_bytes(U32_MAX), <<0, 5>>}

GeneralInits ==
    {{}} \cup {{<<"migration_level", b>>} : b \in StoredValues}

\* what older generations left behind: tombstones, the legacy tables
\* deleted-events and deleted_offsets, raw peer addresses in ip_data
Seeds ==
    { [deleted_ids |-> {}, legacy |-> NoTable, old |-> FALSE],
      [deleted_ids |-> {}, legacy |-> Table({ID_A, ID_B}), old |-> TRUE],
      [deleted_ids |-> {ID_C},
       legacy |-> Table({ID_A \o <<9>>, ID_A \o <<9, 9>>, IdOf(1) \o <<0>>}),
       old |-> TRUE],
      [deleted_ids |-> {ID_A}, legacy |-> Table({ID_B, ShortKey}),
       old |-> FALSE] }

InitLog(n) == [o \in {OffsetOf(i) : i \in 1..n} |-> EventOf(o \div OffsetOf(1))]

InitDb(g, n, seed) ==
    LET lv == StoredLevel([general |-> g])
        ii == {<<IdOf(i), OffsetOf(i)>> : i \in 1..n}
    IN  [general |-> g,
         i_index |-> ii,
         ci_index |-> IF lv >= 1 THEN CiOf(ii, InitLog(n)) ELSE {},
         ac_index |-> IF lv >= 2 THEN AcOf(ii, InitLog(n)) ELSE {},
         tc_index |-> IF lv >= 2 THEN TcOf(ii, InitLog(n)) ELSE {},
         ip_data |-> IF seed.old THEN {<<127, 0, 0, 1>>} ELSE {},
         deleted_ids |-> seed.deleted_ids,
         deleted_offsets |->
             IF seed.old
             THEN Table(IF lv >= 4 THEN {} ELSE {to_be_bytes(OffsetOf(1), 8)})
             ELSE NoTable,
         deleted_events |->
             IF seed.legacy.exists /\ lv >= 5 THEN Table({}) ELSE seed.legacy]

\* no request has arrived; the filestore holds blobs
NoReq == [path |-> << >>, method |-> "none"]
NoAuth == [verb |-> "unverified", hash |-> << >>]
NoOut == [kind |-> "none", status |-> 0, www_authenticate |-> FALSE,
          err |-> "none"]

BlossomIdle(blobs) ==
    /\ b_req = NoReq
    /\ b_pc = "idle"
    /\ b_hash = << >>
    /\ b_auth = NoAuth
    /\ b_err = "none"
    /\ b_out = NoOut
    /\ b_handler = << >>
    /\ b_mut = << >>
    /\ b_blobs = blobs
    /\ b_blobs0 = blobs

Conns == 1..MaxConns

\* main is about to set up the store (line 47)
RelayIdle(use_tls) ==
    /\ r_pc = "store"
    /\ r_use_tls = use_tls
    /\ r_store = FALSE
    /\ r_listener = FALSE
    /\ r_accepted = 0
    /\ r_task = [c \in Conns |-> "none"]
    /\ r_logged = {}
    /\ r_after_failure = {}
    /\ r_exit = "running"

\* the web side before any request
WebIdle == BlossomIdle({}) /\ RelayIdle(FALSE)

\* the storage core when the environment has just been opened
StoreOpened(g, n, seed) ==
    /\ db = InitDb(g, n, seed)
    /\ db0 = db
    /\ txn = db
    /\ events = InitLog(n)
    /\ writer = 0
    /\ pc = [p \in Procs |-> "idle"]
    /\ migration_level = [p \in Procs |-> U32Of(0)]
    /\ level = [p \in Procs |-> 0]
    /\ iter = [p \in Procs |-> << >>]
    /\ ids = [p \in Procs |-> << >>]
    /\ invoked = [p \in Procs |-> << >>]
    /\ result = [p \in Procs |-> "none"]
    /\ failed_at = [p \in Procs |-> 0]
    /\ snap = NoSnap
    /\ calls = 0
    /\ applied = 1..Min(StoredLevel(db), CURRENT_MIGRATION_LEVEL)
    /\ txn_done = {}
    /\ after_ok = [p \in Procs |-> FALSE]

\* an empty environment of the current binary's first run
StoreFresh == StoreOpened({}, 0, [deleted_ids |-> {}, legacy |-> NoTable,
                                  old |-> FALSE])

Init ==
    \E g \in GeneralInits, n \in 0..MaxEvents, seed \in Seeds :
        /\ WebIdle
        /\ StoreOpened(g, n, seed)

\* ------------------------------------------------------------- migrate
\* the local state of a call that has returned
Reset(p) ==
    /\ migration_level' = [migration_level EXCEPT ![p] = U32Of(0)]
    /\ level' = [level EXCEPT ![p] = 0]
    /\ iter' = [iter EXCEPT ![p] = << >>]
    /\ ids' = [ids EXCEPT ![p] = << >>]

\* mutant: leaving migrate early commits what the transaction holds
Abort_commits ==
    /\ db' = txn
    /\ txn' = txn
    /\ writer' = 0
    /\ txn_done' = {}

\* dropping the RwTxn without commit discards every mutation made in it
Abort ==
    /\ db' = db
    /\ txn' = db
    /\ writer' = 0
    /\ txn_done' = {}

\* a caller invokes store.migrate()
call_migrate(p) ==
    /\ pc[p] = "idle"
    /\ calls < MaxCalls
    /\ calls' = calls + 1
    /\ pc' = [pc EXCEPT ![p] = "write_txn"]
    /\ invoked' = [invoked EXCEPT ![p] = << >>]
    /\ result' = [result EXCEPT ![p] = "running"]
    /\ failed_at' = [failed_at EXCEPT ![p] = 0]
    /\ after_ok' = [after_ok EXCEPT ![p] = \E q \in Procs : result[q] = "ok"]
    /\ UNCHANGED <<db, events, txn, writer, migration_level, level, iter, ids,
                   snap, applied, txn_done, db0>>
    /\ UNCHANGED web_vars

\* mutant: the transaction is handed out while another writer is live
write_txn_no_wait(p) ==
    /\ pc[p] = "write_txn"
    /\ writer' = p
    /\ pc' = [pc EXCEPT ![p] = "read_level"]
    /\ UNCHANGED <<db, events, txn, migration_level, level, iter, ids, invoked,
                   result, failed_at, snap, calls, applied, txn_done, db0,
                   after_ok>>
    /\ UNCHANGED web_vars

\* let mut txn = self.env.write_txn()?  -- blocks while another writer is live
write_txn(p) ==
    /\ pc[p] = "write_txn"
    /\ writer = 0
    /\ writer' = p
    /\ pc' = [pc EXCEPT ![p] = "read_level"]
    /\ UNCHANGED <<db, events, txn, migration_level, level, iter, ids, invoked,
                   result, failed_at, snap, calls, applied, txn_done, db0, after_ok>>
    /\ UNCHANGED web_vars

\* write_txn() returns Err: migrate returns before it holds a transaction
write_txn_err(p) ==
    /\ pc[p] = "write_txn"
    /\ pc' = [pc EXCEPT ![p] = "idle"]
    /\ result' = [result EXCEPT ![p] = "err"]
    /\ UNCHANGED <<db, events, txn, writer, migration_level, level, iter, ids,
                   invoked, failed_at, snap, calls, applied, txn_done, db0, after_ok>>
    /\ UNCHANGED web_vars

\* mutant: the stored value is ignored
stored_level_bytes_zero(view) == to_be_bytes(0, LevelLen)

\* lines 14-21: the stored value, or four zero bytes when the key is absent
stored_level_bytes(view) ==
    IF general_get(view) = << >> THEN to_be_bytes(0, LevelLen)
    ELSE general_get(view)[1]

read_level(p) ==
    /\ pc[p] = "read_level"
    /\ writer = p
    /\ Len(stored_level_bytes(txn)) >= LevelLen
    /\ migration_level' = [migration_level EXCEPT ![p] =
           u32_from_be_bytes(SubSeq(stored_level_bytes(txn), 1, LevelLen))]
    /\ pc' = [pc EXCEPT ![p] = "loop"]
    /\ UNCHANGED <<db, events, txn, writer, level, iter, ids, invoked, result,
                   failed_at, snap, calls, applied, txn_done, db0, after_ok>>
    /\ UNCHANGED web_vars

\* migration_level_bytes[..4] on a value shorter than four bytes panics
read_level_panic(p) ==
    /\ pc[p] = "read_level"
    /\ writer = p
    /\ Len(stored_level_bytes(txn)) < LevelLen
    /\ Abort
    /\ Reset(p)
    /\ pc' = [pc EXCEPT ![p] = "panicked"]
    /\ result' = [result EXCEPT ![p] = "panic"]
    /\ UNCHANGED <<events, invoked, failed_at, snap, calls, applied, db0, after_ok>>
    /\ UNCHANGED web_vars

\* mutant: the loop stops one level early
loop_test_early(ml) == u32_lt(ml, U32Of(CURRENT_MIGRATION_LEVEL - 1))

\* mutant: the loop is also entered at the current level
loop_test_inclusive(ml) == u32_lt(ml, U32Of(CURRENT_MIGRATION_LEVEL + 1))

\* while migration_level < CURRENT_MIGRATION_LEVEL
loop_test(ml) == u32_lt(ml, U32Of(CURRENT_MIGRATION_LEVEL))

migrate_loop(p) ==
    /\ pc[p] = "loop"
    /\ writer = p
    /\ pc' = [pc EXCEPT ![p] =
           IF loop_test(migration_level[p]) THEN "migrate_to" ELSE "commit"]
    /\ UNCHANGED <<db, events, txn, writer, migration_level, level, iter, ids,
                   invoked, result, failed_at, snap, calls, applied, txn_done,
                   db0, after_ok>>
    /\ UNCHANGED web_vars

\* mutant: the level advances by two
next_level_skip(ml) == u32_add1(u32_add1(ml))

\* the argument of self.migrate_to(&mut txn, migration_level + 1)
next_level(ml) == u32_add1(ml)

\* match level { 1 => ..., 5 => ..., _ => panic!(..) }
step_entry(lv) ==
    CASE lv = U32Of(1) -> "m1_iter"
      [] lv = U32Of(2) -> "m2_iter"
      [] lv = U32Of(3) -> "m3"
      [] lv = U32Of(4) -> "m4"
      [] lv = U32Of(5) -> "m5_iter"
      [] OTHER -> "panicked"

\* the number of the arm taken, 0 for the panic arm
step_number(lv) ==
    CASE lv = U32Of(1) -> 1
      [] lv = U32Of(2) -> 2
      [] lv = U32Of(3) -> 3
      [] lv = U32Of(4) -> 4
      [] lv = U32Of(5) -> 5
      [] OTHER -> 0

migrate_to(p) ==
    /\ pc[p] = "migrate_to"
    /\ writer = p
    /\ invoked' = [invoked EXCEPT ![p] =
           Append(@, step_number(next_level(migration_level[p])))]
    /\ pc' = [pc EXCEPT ![p] = step_entry(next_level(migration_level[p]))]
    /\ IF step_entry(next_level(migration_level[p])) = "panicked"
       THEN /\ Abort
            /\ Reset(p)
            /\ result' = [result EXCEPT ![p] = "panic"]
            /\ UNCHANGED failed_at
       ELSE /\ level' = [level EXCEPT ![p] =
                   step_number(next_level(migration_level[p]))]
            /\ UNCHANGED <<db, txn, writer, txn_done, migration_level, iter,
                           ids, result, failed_at>>
    /\ UNCHANGED <<events, snap, calls, applied, db0, after_ok>>
    /\ UNCHANGED web_vars

\* the step returned Ok(()): control is back in the loop body of migrate
StepDone(p) ==
    /\ level' = [level EXCEPT ![p] = 0]
    /\ txn_done' = txn_done \cup {level[p]}
    /\ pc' = [pc EXCEPT ![p] = "bump"]

\* get_event_by_offset(offset): << event >>, or << >> for Err
get_event_by_offset(log, offset) ==
    IF offset \in DOMAIN log THEN <<log[offset]>> ELSE << >>

\* ---- migrate_to_1: populate ci_index
\* let loop_txn = self.env.read_txn()?; let iter = self.i_index.iter(&loop_txn)?
\* The read transaction sees the committed environment.
migrate_to_1_iter(p) ==
    /\ pc[p] = "m1_iter"
    /\ writer = p
    /\ iter' = [iter EXCEPT ![p] = SortedEntries(db.i_index)]
    /\ pc' = [pc EXCEPT ![p] = "m1_loop"]
    /\ UNCHANGED <<db, events, txn, writer, migration_level, level, ids,
                   invoked, result, failed_at, snap, calls, applied, txn_done,
                   db0, after_ok>>
    /\ UNCHANGED web_vars

\* mutant: the key carries a sequence number, so each put adds an entry
ci_put_numbered(view, event, offset) ==
    [view EXCEPT !.ci_index =
        Put(@, key_ci_index(event.created_at, event.id)
                   \o <<Cardinality(view.ci_index)>>, offset)]

\* mutant: the entry is written into i_index
ci_put_into_i_index(view, event, offset) ==
    [view EXCEPT !.i_index =
        Put(@, key_ci_index(event.created_at, event.id), offset)]

\* mutant: the key leaves out created_at
ci_put_id_only(view, event, offset) ==
    [view EXCEPT !.ci_index = Put(@, event.id, offset)]

\* self.ci_index.put(txn, &Self::key_ci_index(created_at, id), &offset)
ci_put(view, event, offset) ==
    [view EXCEPT !.ci_index =
        Put(@, key_ci_index(event.created_at, event.id), offset)]

\* one turn of the for loop, or its end
migrate_to_1_next(p) ==
    /\ pc[p] = "m1_loop"
    /\ writer = p
    /\ IF iter[p] = << >>
       THEN /\ StepDone(p)
            /\ UNCHANGED <<txn, iter>>
       ELSE /\ get_event_by_offset(events, Head(iter[p])[2]) # << >>
            /\ txn' = ci_put(txn,
                   get_event_by_offset(events, Head(iter[p])[2])[1],
                   Head(iter[p])[2])
            /\ iter' = [iter EXCEPT ![p] = Tail(@)]
            /\ UNCHANGED <<pc, level, txn_done>>
    /\ UNCHANGED <<db, events, writer, migration_level, ids, invoked, result,
                   failed_at, snap, calls, applied, db0, after_ok>>
    /\ UNCHANGED web_vars

\* ---- migrate_to_2: populate ac_index and tc_index
migrate_to_2_iter(p) ==
    /\ pc[p] = "m2_iter"
    /\ writer = p
    /\ iter' = [iter EXCEPT ![p] = SortedEntries(db.i_index)]
    /\ pc' = [pc EXCEPT ![p] = "m2_loop"]
    /\ UNCHANGED <<db, events, txn, writer, migration_level, level, ids,
                   invoked, result, failed_at, snap, calls, applied, txn_done,
                   db0, after_ok>>
    /\ UNCHANGED web_vars

\* mutant: the value stored is not the offset the cursor yielded
ac_put_next_offset(view, event, offset) ==
    [view EXCEPT !.ac_index =
        Put(@, key_ac_index(event.pubkey, event.created_at, event.id),
            offset + 1)]

\* self.ac_index.put(txn, &Self::key_ac_index(pubkey, created_at, id), &offset)
ac_put(view, event, offset) ==
    [view EXCEPT !.ac_index =
        Put(@, key_ac_index(event.pubkey, event.created_at, event.id), offset)]

\* mutant: the length of the tag name is not tested
tag_is_indexed_any_name(tag) ==
    /\ Len(tag) >= 1
    /\ Len(tag[1]) >= 1
    /\ Len(tag) >= 2

\* if let Some(tagname) = tsi.next() { if tagname.len() == 1 {
\*     if let Some(tagvalue) = tsi.next() { ... } } }
tag_is_indexed(tag) ==
    /\ Len(tag) >= 1
    /\ Len(tag[1]) = 1
    /\ Len(tag) >= 2

RECURSIVE tc_puts(_, _, _, _)
\* for mut tsi in event.tags()?.iter() { ... self.tc_index.put(..) ... }
tc_puts(view, event, offset, k) ==
    IF k > Len(event.tags) THEN view
    ELSE tc_puts(
           IF tag_is_indexed(event.tags[k])
           THEN [view EXCEPT !.tc_index =
                    Put(@, key_tc_index(event.tags[k][1][1], event.tags[k][2],
                                        event.created_at, event.id), offset)]
           ELSE view,
           event, offset, k + 1)

migrate_to_2_next(p) ==
    /\ pc[p] = "m2_loop"
    /\ writer = p
    /\ IF iter[p] = << >>
       THEN /\ StepDone(p)
            /\ UNCHANGED <<txn, iter>>
       ELSE /\ get_event_by_offset(events, Head(iter[p])[2]) # << >>
            /\ txn' = tc_puts(
                   ac_put(txn, get_event_by_offset(events, Head(iter[p])[2])[1],
                          Head(iter[p])[2]),
                   get_event_by_offset(events, Head(iter[p])[2])[1],
                   Head(iter[p])[2], 1)
            /\ iter' = [iter EXCEPT ![p] = Tail(@)]
            /\ UNCHANGED <<pc, level, txn_done>>
    /\ UNCHANGED <<db, events, writer, migration_level, ids, invoked, result,
                   failed_at, snap, calls, applied, db0, after_ok>>
    /\ UNCHANGED web_vars

\* ---- migrate_to_3: self.ip_data.clear(txn)?
ip_data_clear(view) == [view EXCEPT !.ip_data = {}]

migrate_to_3(p) ==
    /\ pc[p] = "m3"
    /\ writer = p
    /\ txn' = ip_data_clear(txn)
    /\ StepDone(p)
    /\ UNCHANGED <<db, events, writer, migration_level, iter, ids, invoked,
                   result, failed_at, snap, calls, applied, db0, after_ok>>
    /\ UNCHANGED web_vars

\* mutant: the table cleared is deleted-events
deleted_offsets_clear_other(view) == [view EXCEPT !.deleted_events = Table({})]

\* ---- migrate_to_4: create-or-open deleted_offsets, then clear it
deleted_offsets_clear(view) == [view EXCEPT !.deleted_offsets = Table({})]

migrate_to_4(p) ==
    /\ pc[p] = "m4"
    /\ writer = p
    /\ txn' = deleted_offsets_clear(txn)
    /\ StepDone(p)
    /\ UNCHANGED <<db, events, writer, migration_level, iter, ids, invoked,
                   result, failed_at, snap, calls, applied, db0, after_ok>>
    /\ UNCHANGED web_vars

\* ---- migrate_to_5: move data from deleted-events to deleted_ids
\* create-or-open deleted-events; let mut ids = Vec::new();
\* deleted_events.iter(txn)?
deleted_events_create(view) ==
    [view EXCEPT !.deleted_events = Table(@.keys)]

migrate_to_5_iter(p) ==
    /\ pc[p] = "m5_iter"
    /\ writer = p
    /\ txn' = deleted_events_create(txn)
    /\ ids' = [ids EXCEPT ![p] = << >>]
    /\ iter' = [iter EXCEPT ![p] = SortedKeys(txn.deleted_events.keys)]
    /\ pc' = [pc EXCEPT ![p] = "m5_collect"]
    /\ UNCHANGED <<db, events, writer, migration_level, level, invoked, result,
                   failed_at, snap, calls, applied, txn_done, db0, after_ok>>
    /\ UNCHANGED web_vars

\* mutant: the id is taken from the end of the key
id_of_key_last(key) == SubSeq(key, Len(key) - IdLen + 1, Len(key))

\* Id(key[0..32].try_into().unwrap())
id_of_key(key) == SubSeq(key, 1, IdLen)

\* mutant: each id is inserted into deleted_ids as soon as it is read
migrate_to_5_collect_fused(p) ==
    /\ pc[p] = "m5_collect"
    /\ writer = p
    /\ IF iter[p] = << >>
       THEN /\ pc' = [pc EXCEPT ![p] = "m5_insert"]
            /\ UNCHANGED <<iter, ids, txn>>
       ELSE /\ Len(Head(iter[p])) >= IdLen
            /\ ids' = [ids EXCEPT ![p] = Append(@, id_of_key(Head(iter[p])))]
            /\ txn' = [txn EXCEPT !.deleted_ids =
                           @ \cup {id_of_key(Head(iter[p]))}]
            /\ iter' = [iter EXCEPT ![p] = Tail(@)]
            /\ UNCHANGED pc
    /\ UNCHANGED <<db, events, writer, migration_level, level, invoked,
                   result, failed_at, snap, calls, applied, txn_done, db0, after_ok>>
    /\ UNCHANGED web_vars

\* one turn of the first for loop: ids.push(id); or its end
migrate_to_5_collect(p) ==
    /\ pc[p] = "m5_collect"
    /\ writer = p
    /\ IF iter[p] = << >>
       THEN /\ pc' = [pc EXCEPT ![p] = "m5_insert"]
            /\ UNCHANGED <<iter, ids>>
       ELSE /\ Len(Head(iter[p])) >= IdLen
            /\ ids' = [ids EXCEPT ![p] = Append(@, id_of_key(Head(iter[p])))]
            /\ iter' = [iter EXCEPT ![p] = Tail(@)]
            /\ UNCHANGED pc
    /\ UNCHANGED <<db, events, txn, writer, migration_level, level, invoked,
                   result, failed_at, snap, calls, applied, txn_done, db0, after_ok>>
    /\ UNCHANGED web_vars

\* key[0..32] on a key shorter than 32 bytes panics
migrate_to_5_collect_panic(p) ==
    /\ pc[p] = "m5_collect"
    /\ writer = p
    /\ iter[p] # << >>
    /\ Len(Head(iter[p])) < IdLen
    /\ Abort
    /\ Reset(p)
    /\ pc' = [pc EXCEPT ![p] = "panicked"]
    /\ result' = [result EXCEPT ![p] = "panic"]
    /\ failed_at' = [failed_at EXCEPT ![p] = level[p]]
    /\ UNCHANGED <<events, invoked, snap, calls, applied, db0, after_ok>>
    /\ UNCHANGED web_vars

\* mutant: the put replaces the content of the table
deleted_ids_put_only(view, id) ==
    [view EXCEPT !.deleted_ids = {id}]

\* self.deleted_ids.put(txn, id.as_slice(), &())
deleted_ids_put(view, id) ==
    [view EXCEPT !.deleted_ids = @ \cup {id}]

\* one turn of `for id in ids.drain(..)`, or its end
migrate_to_5_insert(p) ==
    /\ pc[p] = "m5_insert"
    /\ writer = p
    /\ IF ids[p] = << >>
       THEN /\ pc' = [pc EXCEPT ![p] = "m5_clear"]
            /\ UNCHANGED <<txn, ids>>
       ELSE /\ txn' = deleted_ids_put(txn, Head(ids[p]))
            /\ ids' = [ids EXCEPT ![p] = Tail(@)]
            /\ UNCHANGED pc
    /\ UNCHANGED <<db, events, writer, migration_level, level, iter, invoked,
                   result, failed_at, snap, calls, applied, txn_done, db0, after_ok>>
    /\ UNCHANGED web_vars

\* deleted_events.clear(txn)?
deleted_events_clear(view) == [view EXCEPT !.deleted_events = Table({})]

migrate_to_5_clear(p) ==
    /\ pc[p] = "m5_clear"
    /\ writer = p
    /\ txn' = deleted_events_clear(txn)
    /\ StepDone(p)
    /\ UNCHANGED <<db, events, writer, migration_level, iter, ids, invoked,
                   result, failed_at, snap, calls, applied, db0, after_ok>>
    /\ UNCHANGED web_vars

\* ---- back in migrate
\* mutant: the level written is one too high
put_level_next(view, ml) ==
    [view EXCEPT !.general =
        Put(@, "migration_level", u32_to_be_bytes(u32_add1(ml)))]

\* self.general.put(&mut txn, b"migration_level", level.to_be_bytes())
put_level(view, ml) ==
    [view EXCEPT !.general =
        Put(@, "migration_level", u32_to_be_bytes(ml))]

\* migration_level += 1; self.general.put(..)?
bump_level(p) ==
    /\ pc[p] = "bump"
    /\ writer = p
    /\ migration_level' = [migration_level EXCEPT ![p] = next_level(@)]
    /\ txn' = put_level(txn, next_level(migration_level[p]))
    /\ pc' = [pc EXCEPT ![p] = "loop"]
    /\ UNCHANGED <<db, events, writer, level, iter, ids, invoked, result,
                   failed_at, snap, calls, applied, txn_done, db0, after_ok>>
    /\ UNCHANGED web_vars

\* txn.commit()?; Ok(())
commit(p) ==
    /\ pc[p] = "commit"
    /\ writer = p
    /\ db' = txn
    /\ applied' = applied \cup txn_done
    /\ txn_done' = {}
    /\ writer' = 0
    /\ Reset(p)
    /\ pc' = [pc EXCEPT ![p] = "idle"]
    /\ result' = [result EXCEPT ![p] = "ok"]
    /\ UNCHANGED <<events, txn, invoked, failed_at, snap, calls, db0, after_ok>>
    /\ UNCHANGED web_vars

\* positions at which the statement about to run ends in `?`
FailPoints ==
    {"read_level", "m1_iter", "m1_loop", "m2_iter", "m2_loop", "m3", "m4",
     "m5_iter", "m5_collect", "m5_insert", "m5_clear", "bump", "commit"}

\* a `?` propagates Err out of migrate; the RwTxn is dropped on the way
fail(p) ==
    /\ pc[p] \in FailPoints
    /\ writer = p
    /\ Abort
    /\ Reset(p)
    /\ pc' = [pc EXCEPT ![p] = "idle"]
    /\ result' = [result EXCEPT ![p] = "err"]
    /\ failed_at' = [failed_at EXCEPT ![p] = level[p]]
    /\ UNCHANGED <<events, invoked, snap, calls, applied, db0, after_ok>>
    /\ UNCHANGED web_vars

\* ---- readers
\* a reader opens a read transaction (dropping the one it held): it sees the
\* environment as committed at that moment, until it opens the next one
read_txn ==
    /\ snap # <<db>>
    /\ snap' = <<db>>
    /\ UNCHANGED <<db, events, txn, writer, pc, migration_level, level, iter,
                   ids, invoked, result, failed_at, calls, applied, txn_done,
                   db0, after_ok>>
    /\ UNCHANGED web_vars

Next ==
    \/ \E p \in Procs : call_migrate(p)
    \/ \E p \in Procs : write_txn(p)
    \/ \E p \in Procs : write_txn_err(p)
    \/ \E p \in Procs : read_level(p)
    \/ \E p \in Procs : read_level_panic(p)
    \/ \E p \in Procs : migrate_loop(p)
    \/ \E p \in Procs : migrate_to(p)
    \/ \E p \in Procs : migrate_to_1_iter(p)
    \/ \E p \in Procs : migrate_to_1_next(p)
    \/ \E p \in Procs : migrate_to_2_iter(p)
    \/ \E p \in Procs : migrate_to_2_next(p)
    \/ \E p \in Procs : migrate_to_3(p)
    \/ \E p \in Procs : migrate_to_4(p)
    \/ \E p \in Procs : migrate_to_5_iter(p)
    \/ \E p \in Procs : migrate_to_5_collect(p)
    \/ \E p \in Procs : migrate_to_5_collect_panic(p)
    \/ \E p \in Procs : migrate_to_5_insert(p)
    \/ \E p \in Procs : migrate_to_5_clear(p)
    \/ \E p \in Procs : bump_level(p)
    \/ \E p \in Procs : commit(p)
    \/ \E p \in Procs : fail(p)
    \/ read_txn

Spec == Init /\ [][Next]_vars

TypeOK ==
    /\ writer \in {0} \cup Procs
    /\ calls \in 0..MaxCalls
    /\ applied \subseteq 1..CURRENT_MIGRATION_LEVEL
    /\ writer = 0 => txn = db

\* ================================================================ claims
\* the environment was opened with a well-formed stored level of at most
\* CURRENT_MIGRATION_LEVEL (an absent key counts as 0)
StartsAtMostCurrent ==
    \/ general_get(db0) = << >>
    \/ /\ Len(general_get(db0)[1]) >= LevelLen
       /\ StoredLevel(db0) <= CURRENT_MIGRATION_LEVEL

\* the environment was opened with a well-formed stored level below n
StartsBelow(n) ==
    \/ general_get(db0) = << >>
    \/ /\ Len(general_get(db0)[1]) >= LevelLen
       /\ StoredLevel(db0) < n

\* the bytes of level n as the key general["migration_level"] holds them
LevelBytes(n) == to_be_bytes(n, LevelLen)

\* C1: for every stored level 0..5 (absent = 0), once a migrate call has
\* returned Ok the committed general["migration_level"] is the four
\* big-endian bytes of CURRENT_MIGRATION_LEVEL.
C1_OkEndsAtCurrent ==
    (StartsAtMostCurrent /\ \E p \in Procs : result[p] = "ok")
        => general_get(db) = <<LevelBytes(CURRENT_MIGRATION_LEVEL)>>

\* a fresh, empty database on which migrate has returned Ok after running
\* every step
C1_Witness ==
    /\ db0.general = {}
    /\ db0.i_index = {}
    /\ result[1] = "ok"
    /\ invoked[1] = <<1, 2, 3, 4, 5>>
    /\ general_get(db) = <<LevelBytes(CURRENT_MIGRATION_LEVEL)>>

\* C2 (as claimed): when a call that started at stored level v returns Err
\* out of step k > v+1, the steps before k stay committed: the stored level
\* after the return is k-1.
C2_ResumesAtFailedStep ==
    [][\A p \in Procs :
          (/\ result[p] = "running"
           /\ result'[p] = "err"
           /\ failed_at'[p] > 0
           /\ failed_at'[p] > Head(invoked[p]))
              => StoredLevel(db') = failed_at'[p] - 1]_vars

\* the tables step k writes
TouchedBy(k, view) ==
    CASE k = 1 -> <<view.ci_index>>
      [] k = 2 -> <<view.ac_index, view.tc_index>>
      [] k = 3 -> <<view.ip_data>>
      [] k = 4 -> <<view.deleted_offsets>>
      [] k = 5 -> <<view.deleted_ids, view.deleted_events>>
      [] OTHER -> << >>

\* C3: when migrate returns Err out of a running step, the committed
\* environment (what every transaction opened afterwards sees) shows none
\* of the failing step's writes, and the stored level stays below the
\* failing step.
C3_FailedStepLeavesNoTrace ==
    [][\A p \in Procs :
          (result[p] = "running" /\ level[p] > 0 /\ result'[p] = "err")
              => /\ failed_at'[p] = level[p]
                 /\ TouchedBy(level[p], db') = TouchedBy(level[p], db)
                 /\ txn' = db'
                 /\ general_get(db') = general_get(db)
                 /\ StoredLevel(db') < level[p]]_vars

\* a call that ran step 1 to its end and then returned Err out of step 2:
\* the environment still has the level and the empty indexes it started with
C3_Witness ==
    /\ result[1] = "err"
    /\ failed_at[1] = 2
    /\ invoked[1] = <<1, 2>>
    /\ db.i_index # {}
    /\ db.ci_index = {}
    /\ db.ac_index = {}
    /\ StoredLevel(db) = 0

\* C4 (as claimed): a stored level above CURRENT_MIGRATION_LEVEL makes
\* migrate fail: no call on such an environment returns Ok.
C4_NewerLevelRefused ==
    (/\ general_get(db0) # << >>
     /\ Len(general_get(db0)[1]) >= LevelLen
     /\ StoredLevel(db0) > CURRENT_MIGRATION_LEVEL)
        => \A p \in Procs : result[p] # "ok"

\* C5: a migrate call issued after a migrate call has returned Ok invokes
\* no step and changes neither the stored level nor any table, in the
\* committed environment or in its own transaction.
C5_SecondCallIsNoOp ==
    [][\A p \in Procs :
          (after_ok[p] /\ writer = p)
              => /\ invoked'[p] = << >>
                 /\ db' = db
                 /\ txn' = db]_vars

\* a second call has returned Ok on an environment that the first call
\* migrated from level 0, with events in the log
C5_Witness ==
    /\ after_ok[1]
    /\ result[1] = "ok"
    /\ calls = 2
    /\ db0.general = {}
    /\ db0.i_index # {}
    /\ db # db0
    /\ invoked[1] = << >>

Highest(S) == IF S = {} THEN 0 ELSE CHOOSE m \in S : \A x \in S : x <= m

\* C6: on an environment opened at a level of at most 5, in every committed
\* state the stored level is at most CURRENT_MIGRATION_LEVEL and is the
\* highest step whose effects are committed, and no transition lowers it.
C6_LevelTracksCommittedSteps ==
    [][StartsAtMostCurrent
          => /\ StoredLevel(db) <= CURRENT_MIGRATION_LEVEL
             /\ StoredLevel(db') <= CURRENT_MIGRATION_LEVEL
             /\ StoredLevel(db) = Highest(applied)
             /\ StoredLevel(db') = Highest(applied')
             /\ StoredLevel(db') >= StoredLevel(db)]_vars

\* a first call failed inside step 4 and left level 2 behind; a second call
\* then committed steps 3, 4 and 5
C6_Witness ==
    /\ StoredLevel(db0) = 2
    /\ calls = 2
    /\ result[1] = "err"
    /\ failed_at[1] = 4
    /\ result[2] = "ok"
    /\ invoked[2] = <<3, 4, 5>>
    /\ applied = 1..5
    /\ StoredLevel(db) = 5

\* BE8(created_at)
BE8(t) == to_be_bytes(t, 8)

\* view holds the ci_index entry of every event i_index reaches
CiPopulated(view) ==
    \A e \in view.i_index :
        <<BE8(events[e[2]].created_at) \o events[e[2]].id, e[2]>>
            \in view.ci_index

\* C7: once step 1 is committed, every entry (id -> offset) of i_index has
\* the ci_index entry BE8(created_at) || id -> offset of the event at that
\* offset; where ci_index started empty it has exactly one entry per
\* i_index entry.
C7_Step1PopulatesCi ==
    (StartsBelow(1) /\ 1 \in applied)
        => /\ CiPopulated(db)
           /\ db0.ci_index = {}
                 => Cardinality(db.ci_index) = Cardinality(db.i_index)

\* step 1 has been committed on a level-0 database with two events whose
\* created_at differ in more than the last byte
C7_Witness ==
    /\ StartsBelow(1)
    /\ 1 \in applied
    /\ Cardinality(db.i_index) = 2
    /\ Cardinality(db.ci_index) = 2
    /\ \E e \in db.i_index : events[e[2]].created_at >= 256

\* name and value of a tag as far as it has them
TagName(tag) == IF Len(tag) >= 1 THEN tag[1] ELSE << >>
TagValue(tag) == IF Len(tag) >= 2 THEN tag[2] ELSE << >>

\* the tc_index key a tag of an event would be stored under
TagKey(event, tag) ==
    TagName(tag) \o TagValue(tag) \o BE8(event.created_at) \o event.id

\* view holds the ac_index entry, and exactly the tc_index entries of the
\* tags with a one-byte name and a value, of every event i_index reaches
AcTcPopulated(view) ==
    \A e \in view.i_index :
        LET ev == events[e[2]]
            qualifying == {k \in 1..Len(ev.tags) :
                              Len(TagName(ev.tags[k])) = 1 /\ Len(ev.tags[k]) >= 2}
        IN  /\ <<ev.pubkey \o BE8(ev.created_at) \o ev.id, e[2]>>
                   \in view.ac_index
            /\ Cardinality({x \in view.ac_index : x[2] = e[2]}) = 1
            /\ \A k \in 1..Len(ev.tags) :
                   (<<TagKey(ev, ev.tags[k]), e[2]>> \in view.tc_index)
                       <=> k \in qualifying
            /\ Cardinality({x \in view.tc_index : x[2] = e[2]})
                   = Cardinality({ev.tags[k] : k \in qualifying})

\* C8: once step 2 is committed, every event i_index reaches has one
\* ac_index entry pubkey || BE8(created_at) || id -> offset, and has a
\* tc_index entry for a tag exactly when the tag's name is one byte long
\* and the tag has a second element.
C8_Step2PopulatesAcTc ==
    (StartsBelow(2) /\ 2 \in applied) => AcTcPopulated(db)

\* step 2 has been committed on a database holding an event with an indexed
\* tag and a multi-byte-name tag, and an event with a valueless tag
C8_Witness ==
    /\ StartsBelow(2)
    /\ 2 \in applied
    /\ Cardinality(db.i_index) = 2
    /\ Cardinality(db.ac_index) = 2
    /\ Cardinality(db.tc_index) = 2
    /\ \E e \in db.i_index : \E k \in 1..Len(events[e[2]].tags) :
           Len(TagName(events[e[2]].tags[k])) > 1
    /\ \E e \in db.i_index : \E k \in 1..Len(events[e[2]].tags) :
           Len(events[e[2]].tags[k]) = 1

\* the leading 32 bytes of every key of a legacy table
Prefixes(K) == {SubSeq(k, 1, IdLen) : k \in K}

\* C9: once step 5 is committed, deleted_ids is what it held before united
\* with the 32-byte prefixes of the keys deleted-events held, and
\* deleted-events is empty.
C9_Step5MovesTombstones ==
    (StartsBelow(5) /\ 5 \in applied)
        => /\ db.deleted_ids
                  = db0.deleted_ids \cup Prefixes(db0.deleted_events.keys)
           /\ db.deleted_events = Table({})

\* the v3 -> v5 scenario: deleted-events held keys for ID_A and ID_B,
\* deleted_ids was empty
C9_Witness ==
    /\ StoredLevel(db0) = 3
    /\ db0.deleted_events.keys = {ID_A, ID_B}
    /\ db0.deleted_ids = {}
    /\ 5 \in applied
    /\ db.deleted_ids = {ID_A, ID_B}
    /\ db.deleted_events.keys = {}

\* view shows every effect of the steps up to n that migration ran
ShowsStepsUpTo(n, view) ==
    /\ n >= 1 => CiPopulated(view)
    /\ n >= 2 => AcTcPopulated(view)
    /\ (n >= 3 /\ StartsBelow(3)) => view.ip_data = {}
    /\ (n >= 4 /\ StartsBelow(4)) => view.deleted_offsets = Table({})
    /\ (n >= 5 /\ StartsBelow(5))
          => /\ view.deleted_events = Table({})
             /\ Prefixes(db0.deleted_events.keys) \subseteq view.deleted_ids

\* view shows no effect of any step above n: the tables those steps write
\* are as they were when the environment was opened
ShowsNoStepAbove(n, view) ==
    \A k \in 1..CURRENT_MIGRATION_LEVEL :
        k > n => TouchedBy(k, view) = TouchedBy(k, db0)

\* C10: the snapshot of a read transaction never shows a partial migration:
\* if it shows stored level n, it shows all effects of the steps up to n and
\* no effect of a step above n.
C10_ReaderSeesWholeLevels ==
    (StartsAtMostCurrent /\ snap # NoSnap)
        => /\ ShowsStepsUpTo(StoredLevel(snap[1]), snap[1])
           /\ ShowsNoStepAbove(StoredLevel(snap[1]), snap[1])

\* a reader holds a level-0 snapshot while a migrate call, two steps into
\* its transaction, has filled ci_index
C10_Witness ==
    /\ snap # NoSnap
    /\ writer # 0
    /\ StoredLevel(snap[1]) = 0
    /\ snap[1].i_index # {}
    /\ snap[1].ci_index = {}
    /\ StoredLevel(txn) = 2
    /\ txn.ci_index # {}

\* positions at which a call holds the write transaction
InTxn ==
    FailPoints \cup {"loop", "migrate_to"}

\* C11: concurrent migrate calls are serialised by the write transaction:
\* only its holder is past write_txn; no call runs or completes a step whose
\* effects are already committed; and a call that holds the transaction
\* after another call returned Ok has read level 5 and invokes no step.
C11_ConcurrentCallsSerialised ==
    \A p \in Procs :
        /\ pc[p] \in InTxn => writer = p
        /\ writer = p
              => /\ txn_done \cap applied = {}
                 /\ level[p] \notin applied
                 /\ (\E q \in Procs \ {p} : result[q] = "ok")
                       => /\ invoked[p] = << >>
                          /\ (StartsAtMostCurrent /\ pc[p] # "read_level")
                                => migration_level[p]
                                       = U32Of(CURRENT_MIGRATION_LEVEL)

\* both calls were issued before either had returned; process 1 migrated
\* the environment from level 0, process 2 then got the transaction and is
\* at its commit without having invoked a step
C11_Witness ==
    /\ calls = 2
    /\ ~after_ok[2]
    /\ StartsBelow(1)
    /\ result[1] = "ok"
    /\ invoked[1] = <<1, 2, 3, 4, 5>>
    /\ writer = 2
    /\ pc[2] = "commit"
    /\ invoked[2] = << >>
    /\ migration_level[2] = U32Of(CURRENT_MIGRATION_LEVEL)

\* C12 (as claimed): whatever the environment holds, migrate ends by
\* returning and never by panicking.
C12_NeverPanics ==
    \A p \in Procs : result[p] # "panic" /\ pc[p] # "panicked"

\* the sequence <<a, a+1, ..., b>> (empty when a > b)
Range(a, b) == [i \in 1..(b - a + 1) |-> a + i - 1]

\* C13: from a stored level v <= 5 a call invokes the steps v+1, v+2, ...
\* in ascending order, each once; the level written in the transaction when
\* step k starts is k-1 (every earlier step's level is already written);
\* and a call reaches its commit after exactly the steps v+1..5.
C13_StepsInOrderOnce ==
    \A p \in Procs :
        (StartsAtMostCurrent /\ writer = p /\ pc[p] # "read_level")
            => /\ Len(invoked[p]) <= CURRENT_MIGRATION_LEVEL - StoredLevel(db)
               /\ invoked[p]
                      = Range(StoredLevel(db) + 1,
                              StoredLevel(db) + Len(invoked[p]))
               /\ level[p] > 0
                     => /\ level[p] = invoked[p][Len(invoked[p])]
                        /\ StoredLevel(txn) = level[p] - 1
               /\ pc[p] = "commit"
                     => /\ invoked[p]
                               = Range(StoredLevel(db) + 1,
                                       CURRENT_MIGRATION_LEVEL)
                        /\ StoredLevel(txn) = CURRENT_MIGRATION_LEVEL

\* a call that started at level 2 is at its commit after steps 3, 4, 5
C13_Witness ==
    /\ StoredLevel(db) = 2
    /\ writer = 1
    /\ pc[1] = "commit"
    /\ invoked[1] = <<3, 4, 5>>
    /\ txn_done = {3, 4, 5}

\* every entry of ci_index, ac_index and tc_index of view holds an offset
\* that i_index also holds, under the key made of the fields of the event
\* at that offset
SecondaryAgree(view) ==
    /\ \A x \in view.ci_index :
           /\ x[2] \in Values(view.i_index)
           /\ x[1] = BE8(events[x[2]].created_at) \o events[x[2]].id
    /\ \A x \in view.ac_index :
           /\ x[2] \in Values(view.i_index)
           /\ x[1] = events[x[2]].pubkey \o BE8(events[x[2]].created_at)
                         \o events[x[2]].id
    /\ \A x \in view.tc_index :
           /\ x[2] \in Values(view.i_index)
           /\ \E k \in 1..Len(events[x[2]].tags) :
                  /\ Len(events[x[2]].tags[k]) >= 2
                  /\ Len(events[x[2]].tags[k][1]) = 1
                  /\ x[1] = TagKey(events[x[2]], events[x[2]].tags[k])

\* C14: where the secondary indexes agreed with i_index and the log when
\* the environment was opened, they agree in every committed state and in
\* every state of the write transaction: migration writes no entry for an
\* offset i_index lacks, nor under a key the event's fields do not give.
C14_SecondaryIndexesAgree ==
    SecondaryAgree(db0) => (SecondaryAgree(db) /\ SecondaryAgree(txn))

\* a level-0 database with two events and empty secondary indexes has been
\* migrated to level 5
C14_Witness ==
    /\ StartsBelow(1)
    /\ db0.ci_index = {}
    /\ db0.ac_index = {}
    /\ db0.tc_index = {}
    /\ applied = 1..5
    /\ Cardinality(db.i_index) = 2
    /\ Cardinality(db.ci_index) = 2
    /\ Cardinality(db.ac_index) = 2
    /\ db.tc_index # {}
    /\ SecondaryAgree(db)

\* C15: deleted_ids only grows across migration, whatever the outcome:
\* every id the committed table held when the environment was opened is in
\* every later committed state, and the write transaction of a call holds
\* every id of the committed state it started from, so neither a commit nor
\* an abort takes an id away.
C15_DeletedIdsOnlyGrow ==
    /\ db0.deleted_ids \subseteq db.deleted_ids
    /\ db.deleted_ids \subseteq txn.deleted_ids

\* step 5 has committed on a database that held a tombstone beforehand and
\* legacy keys for two other ids
C15_Witness ==
    /\ StartsBelow(5)
    /\ 5 \in applied
    /\ db0.deleted_ids = {ID_C}
    /\ db.deleted_ids = {ID_C, ID_A, IdOf(1)}

\* ids of the events in the log
LogIds == {events[o].id : o \in DOMAIN events}

\* C16 as stated: where deleted_ids held only ids of log events when the
\* environment was opened, it holds only ids of log events, each with an
\* i_index entry, in every committed state, the one after step 5 included.
C16_DeletedIdsWithinLog ==
    (db0.deleted_ids \subseteq LogIds \cap Keys(db0.i_index))
        => (db.deleted_ids \subseteq LogIds \cap Keys(db.i_index))

\* leading 32 bytes of the keys of K that are at least 32 bytes long
LongPrefixes(K) == Prefixes({k \in K : Len(k) >= IdLen})

\* C16 amended: in every committed state each id of deleted_ids was in the
\* table when the environment was opened or is the leading 32 bytes of a key
\* the legacy deleted-events table held; once step 5 is committed every such
\* prefix is in deleted_ids, whether or not i_index has an entry for it.
C16_TombstonesComeFromLegacyKeys ==
    /\ db.deleted_ids
           \subseteq db0.deleted_ids \cup LongPrefixes(db0.deleted_events.keys)
    /\ (StartsBelow(5) /\ 5 \in applied)
           => /\ LongPrefixes(db0.deleted_events.keys) \subseteq db.deleted_ids
              /\ db.i_index = db0.i_index

\* step 5 has committed a tombstone for an id that no log event and no
\* i_index entry carries
C16_Witness ==
    /\ StartsBelow(5)
    /\ 5 \in applied
    /\ \E id \in db.deleted_ids :
           /\ id \notin db0.deleted_ids
           /\ id \notin LogIds
           /\ id \notin Keys(db.i_index)
    /\ \E id \in db.deleted_ids : id \in LogIds /\ id \notin db0.deleted_ids

\* the step at position from has just returned Ok in this transition
Returns(p, from) == pc[p] = from /\ pc'[p] = "bump"

\* every table but t is the same in view and in next
OnlyChanges(t, view, next) ==
    \A f \in DOMAIN view \ {t} : next[f] = view[f]

\* C17: step 3 leaves ip_data empty and step 4 leaves deleted_offsets
\* existing and empty, also where the table did not exist; each changes no
\* other table of the transaction and nothing committed; once committed,
\* ip_data and deleted_offsets are empty in the committed state.
C17_Steps3And4OnlyTruncate ==
    [][/\ \A p \in Procs :
              /\ Returns(p, "m3")
                    => /\ txn'.ip_data = {}
                       /\ OnlyChanges("ip_data", txn, txn')
                       /\ db' = db
              /\ Returns(p, "m4")
                    => /\ txn'.deleted_offsets = Table({})
                       /\ OnlyChanges("deleted_offsets", txn, txn')
                       /\ db' = db
       /\ (StartsBelow(3) /\ 3 \in applied') => db'.ip_data = {}
       /\ (StartsBelow(4) /\ 4 \in applied')
             => db'.deleted_offsets = Table({})]_vars

\* steps 3 and 4 have committed on a database whose ip_data and
\* deleted_offsets held entries
C17_Witness ==
    /\ StartsBelow(3)
    /\ {3, 4} \subseteq applied
    /\ db0.ip_data # {}
    /\ db0.deleted_offsets.keys # {}
    /\ db.ip_data = {}
    /\ db.deleted_offsets = Table({})
    /\ db.i_index = db0.i_index
    /\ db.i_index # {}

\* C18: no step of migrate, whatever the starting level and however the call
\* ends, changes the entries of i_index (committed or in the write
\* transaction) or the event stored at any offset of the log.
C18_IIndexAndLogUntouched ==
    [][/\ db'.i_index = db.i_index
       /\ txn'.i_index = txn.i_index
       /\ events' = events]_vars

\* all five steps have committed on a database with two events: the
\* secondary indexes changed, i_index did not
C18_Witness ==
    /\ StartsBelow(1)
    /\ applied = 1..5
    /\ Cardinality(db.i_index) = 2
    /\ db.i_index = db0.i_index
    /\ DOMAIN events = Values(db.i_index)
    /\ db.ci_index # db0.ci_index
    /\ db.ac_index # db0.ac_index

\* the elements of sequence q
Elems(q) == {q[i] : i \in 1..Len(q)}

\* C19: step 5 is staged. While the cursor over deleted-events is open
\* nothing has been inserted into deleted_ids and every key is either still
\* to be read or has its id in memory; the insertions start only once the
\* cursor is exhausted, with the legacy table still whole; the truncation
\* comes only when no collected id is left to insert and deleted_ids holds
\* the id of every legacy key.
C19_Step5IsStaged ==
    \A p \in Procs :
        /\ pc[p] = "m5_collect"
              => /\ txn.deleted_ids = db.deleted_ids
                 /\ txn.deleted_events.keys = db.deleted_events.keys
                 /\ Len(ids[p]) + Len(iter[p])
                        = Cardinality(db.deleted_events.keys)
                 /\ Elems(iter[p]) \subseteq db.deleted_events.keys
        /\ pc[p] = "m5_insert"
              => /\ iter[p] = << >>
                 /\ txn.deleted_events.keys = db.deleted_events.keys
                 /\ Prefixes(db.deleted_events.keys)
                        \subseteq txn.deleted_ids \cup Elems(ids[p])
                 /\ txn.deleted_ids \subseteq
                        db.deleted_ids \cup Prefixes(db.deleted_events.keys)
        /\ pc[p] = "m5_clear"
              => /\ iter[p] = << >>
                 /\ ids[p] = << >>
                 /\ txn.deleted_events.keys = db.deleted_events.keys
                 /\ Prefixes(db.deleted_events.keys) \subseteq txn.deleted_ids

\* between the first and the second insertion: the cursor is closed, one id
\* is still in memory, the legacy table is not yet truncated
C19_Witness ==
    /\ pc[1] = "m5_insert"
    /\ iter[1] = << >>
    /\ Len(ids[1]) = 1
    /\ txn.deleted_ids # db.deleted_ids
    /\ Cardinality(txn.deleted_events.keys) >= 2

\* ------------------------------------------- the steps as whole functions
\* Each step from its first statement to its Ok(()), applied to the view of
\* the write transaction; committed is what the read transaction of steps 1
\* and 2 sees, log the event log.
RECURSIVE ci_puts(_, _, _)
\* for result in iter { let (_key, offset) = result?; ... ci_index.put }
ci_puts(view, log, entries) ==
    IF entries = << >> \/ get_event_by_offset(log, Head(entries)[2]) = << >>
    THEN view
    ELSE ci_puts(ci_put(view, get_event_by_offset(log, Head(entries)[2])[1],
                        Head(entries)[2]),
                 log, Tail(entries))

run_migrate_to_1(view, committed, log) ==
    ci_puts(view, log, SortedEntries(committed.i_index))

RECURSIVE ac_tc_puts(_, _, _)
\* for result in iter { ... ac_index.put ...; for tsi in tags { tc_index.put } }
ac_tc_puts(view, log, entries) ==
    IF entries = << >> \/ get_event_by_offset(log, Head(entries)[2]) = << >>
    THEN view
    ELSE ac_tc_puts(
             tc_puts(ac_put(view,
                            get_event_by_offset(log, Head(entries)[2])[1],
                            Head(entries)[2]),
                     get_event_by_offset(log, Head(entries)[2])[1],
                     Head(entries)[2], 1),
             log, Tail(entries))

run_migrate_to_2(view, committed, log) ==
    ac_tc_puts(view, log, SortedEntries(committed.i_index))

run_migrate_to_3(view) == ip_data_clear(view)

run_migrate_to_4(view) == deleted_offsets_clear(view)

RECURSIVE deleted_ids_puts(_, _)
\* for id in ids.drain(..) { self.deleted_ids.put(txn, id.as_slice(), &())?; }
deleted_ids_puts(view, keys) ==
    IF keys = << >> THEN view
    ELSE deleted_ids_puts(deleted_ids_put(view, id_of_key(Head(keys))),
                          Tail(keys))

run_migrate_to_5(view) ==
    deleted_events_clear(
        deleted_ids_puts(deleted_events_create(view),
                         SortedKeys(view.deleted_events.keys)))

\* match level { 1 => .., 2 => .., 3 => .., 4 => .., 5 => .. }
run_migrate_to(n, view, committed, log) ==
    CASE n = 1 -> run_migrate_to_1(view, committed, log)
      [] n = 2 -> run_migrate_to_2(view, committed, log)
      [] n = 3 -> run_migrate_to_3(view)
      [] n = 4 -> run_migrate_to_4(view)
      [] n = 5 -> run_migrate_to_5(view)

\* step n runs to its end on view: step 5 needs every legacy key to be at
\* least 32 bytes long
RunsThrough(n, view) ==
    n = 5 => \A k \in view.deleted_events.keys : Len(k) >= IdLen

\* C20: each step is idempotent. On every view the write transaction holds
\* between two steps (at the loop test of migrate), applying step n (n in
\* 1..5) to the result of step n gives that result again; and the view the
\* actions of step n leave when the step returns is unchanged by applying
\* step n once more.
C20_StepsIdempotent ==
    \A p \in Procs :
        /\ pc[p] = "loop"
              => \A n \in 1..CURRENT_MIGRATION_LEVEL :
                     RunsThrough(n, txn)
                         => run_migrate_to(n,
                                run_migrate_to(n, txn, db, events), db, events)
                                = run_migrate_to(n, txn, db, events)
        /\ (pc[p] = "bump" /\ invoked[p] # << >>)
              => run_migrate_to(invoked[p][Len(invoked[p])], txn, db, events)
                     = txn

\* step 1 has just returned on a database with two events: ci_index holds
\* two entries and a second run of step 1 re-inserts the same two
C20_Witness ==
    /\ pc[1] = "bump"
    /\ invoked[1] = <<1>>
    /\ db.ci_index = {}
    /\ Cardinality(txn.ci_index) = 2
    /\ run_migrate_to_1(db, db, events) = txn
    /\ run_migrate_to_1(txn, db, events) = txn

\* C21: the panic arm of migrate_to is never taken. Whatever level is
\* stored, values above 5 and u32::MAX included, migrate_to is called only
\* while migration_level is below 5, so migration_level + 1 is in 1..5 and
\* does not overflow, and every step invoked so far is one of 1..5.
C21_PanicArmUnreachable ==
    \A p \in Procs :
        /\ pc[p] = "migrate_to"
              => /\ u32_lt(migration_level[p], U32Of(CURRENT_MIGRATION_LEVEL))
                 /\ migration_level[p] # U32_MAX
                 /\ step_number(next_level(migration_level[p]))
                        \in 1..CURRENT_MIGRATION_LEVEL
                 /\ step_entry(next_level(migration_level[p])) # "panicked"
        /\ Elems(invoked[p]) \subseteq 1..CURRENT_MIGRATION_LEVEL

\* a call on a database whose stored level is u32::MAX has left the loop
\* without invoking a step and is about to commit
C21_Witness ==
    /\ general_get(db0) = <<u32_to_be_bytes(U32_MAX)>>
    /\ calls = 1
    /\ pc[1] = "commit"
    /\ invoked[1] = << >>
    /\ migration_level[1] = U32_MAX

\* ================================================= web/blossom/mod.rs
\* A string is a sequence of one-character strings; "0x80" stands for a
\* byte that is not visible ASCII.
HexLen == 64
Digits == {"0", "1", "2", "3", "4", "5", "6", "7", "8", "9"}
LowerHex == {"a", "b", "c", "d", "e", "f"}
UpperHex == {"A", "B", "C", "D", "E", "F"}

\* char::is_ascii_hexdigit
is_ascii_hexdigit(c) == c \in Digits \cup LowerHex \cup UpperHex

Repeat(c, n) == [i \in 1..n |-> c]

\* str::starts_with
starts_with(s, prefix) ==
    /\ Len(s) >= Len(prefix)
    /\ SubSeq(s, 1, Len(prefix)) = prefix

\* s.chars().skip(n).take(m)
skip_take(s, n, m) == SubSeq(s, n + 1, Min(Len(s), n + m))

\* ---- requests
HEX_A == Repeat("a", HexLen)
HEX_B == Repeat("b", HexLen)
HEX_UPPER_A == Repeat("A", HexLen)

UPLOAD == <<"/", "u", "p", "l", "o", "a", "d">>
LIST == <<"/", "l", "i", "s", "t", "/">>
MIRROR == <<"/", "m", "i", "r", "r", "o", "r">>

Paths ==
    { <<"/">> \o HEX_A,
      <<"/">> \o HEX_UPPER_A,
      <<"/">> \o HEX_B \o <<".", "p", "n", "g">>,
      <<"/">> \o Repeat("a", HexLen - 1),
      <<"/">> \o Repeat("a", HexLen - 1) \o <<"g">>,
      UPLOAD,
      UPLOAD \o <<"s">>,
      LIST \o HEX_A,
      LIST \o <<"a", "b", "c">>,
      MIRROR,
      <<"/">> }

Methods == {"OPTIONS", "HEAD", "GET", "PUT", "DELETE", "POST"}

\* ---- route (lines 30-50): the handler the path selects
route_target(p) ==
    IF /\ starts_with(p, <<"/">>)
       /\ Len(p) >= 1 + 64
       /\ \A c \in Elems(skip_take(p, 1, 64)) : is_ascii_hexdigit(c)
    THEN "handle_hash"
    ELSE IF p = UPLOAD
    THEN "handle_upload"
    ELSE IF /\ starts_with(p, LIST)
            /\ Len(p) >= 6 + 64
            /\ \A c \in Elems(skip_take(p, 6, 64)) : is_ascii_hexdigit(c)
    THEN "handle_list"
    ELSE IF p = MIRROR
    THEN "handle_mirror"
    ELSE "SignalNotBlossom"

\* ---- errors
Errors == {"SignalNotBlossom", "BlossomAuthFailure", "FromHex", "IoNotFound",
           "IoOther", "Other"}

Responded(status) ==
    [kind |-> "Ok", status |-> status, www_authenticate |-> FALSE,
     err |-> "none"]

\* error_response (lines 52-74)
error_response(e) ==
    CASE e = "BlossomAuthFailure" ->
             [kind |-> "Ok", status |-> 401, www_authenticate |-> TRUE,
              err |-> "none"]
      [] e = "FromHex" -> Responded(400)
      [] e = "IoNotFound" -> Responded(404)
      [] e = "IoOther" -> Responded(500)
      [] OTHER -> Responded(500)

\* the match of handle (lines 21-27) on an Err of route
handle_err(e) ==
    IF e = "SignalNotBlossom"
    THEN [kind |-> "Err", status |-> 0, www_authenticate |-> FALSE, err |-> e]
    ELSE error_response(e)

\* options_response (lines 76-103): a CORS request gets 200, another 204
options_response(cors) == Responded(IF cors THEN 200 ELSE 204)

\* ---- hashes
to_ascii_lowercase(c) ==
    CASE c = "A" -> "a" [] c = "B" -> "b" [] c = "C" -> "c"
      [] c = "D" -> "d" [] c = "E" -> "e" [] c = "F" -> "f"
      [] OTHER -> c

\* HashOutput::from_hex: << hash >>, or << >> for Err; a hash is held as the
\* lower-case hex text its Display prints
from_hex(str) ==
    IF Len(str) = HexLen /\ \A c \in Elems(str) : is_ascii_hexdigit(c)
    THEN <<[i \in 1..HexLen |-> to_ascii_lowercase(str[i])]>>
    ELSE << >>

Hashes == {HEX_A, HEX_B}

\* ---- conditional headers
RECURSIVE split(_, _)
\* str::split(','): the parts between the separators, empty ones included
split(str, sep) ==
    IF \A i \in 1..Len(str) : str[i] # sep
    THEN <<str>>
    ELSE LET i == CHOOSE k \in 1..Len(str) :
                      /\ str[k] = sep
                      /\ \A j \in 1..(k - 1) : str[j] # sep
         IN  <<SubSeq(str, 1, i - 1)>> \o split(SubSeq(str, i + 1, Len(str)), sep)

\* HeaderValue::to_str: Err on a byte that is not visible ASCII
to_str_ok(value) == \A c \in Elems(value) : c # "0x80"

\* part[1..part.len() - 1] panics on a part shorter than two bytes
slice_panics(part) == Len(part) < 2

\* part[1..part.len() - 1] == format!("{}", hash)
etag_matches(part, hash) == SubSeq(part, 2, Len(part) - 1) = hash

Quoted(str) == <<"\"">> \o str \o <<"\"">>

\* header values a client may send; << >> stands for "header absent"
EtagHeaders ==
    { << >>,
      <<Quoted(HEX_A)>>,
      <<Quoted(HEX_B)>>,
      <<Quoted(HEX_B) \o <<",">> \o Quoted(HEX_A)>>,
      <<<<"*">>>>,
      <<Quoted(HEX_A) \o <<",">>>>,
      <<<< >>>>,
      <<<<"0x80">>>> }

\* ---- verify_auth: Err, or Ok(auth_data) with an optional verb and an
\* optional expected hash
AuthVerbs == {"None", "Upload", "Delete", "List", "Mirror"}
AuthData == [verb : AuthVerbs, hash : {<< >>, <<HEX_A>>, <<HEX_B>>}]

\* what the Blossom handlers leave alone
beside_blossom == <<store_vars, relay_vars>>

\* ---- how a step of a handler ends
\* Ok(response) travels unchanged through route and handle
Return(out) ==
    /\ b_out' = out
    /\ b_pc' = "idle"
    /\ UNCHANGED b_err

\* Err(e), by `return Err(..)` or by `?`, reaches the match of handle
Raise(e) ==
    /\ b_err' = e
    /\ b_pc' = "handle"
    /\ UNCHANGED b_out

\* a panic unwinds out of handle: the caller gets neither Ok nor Err
Panic ==
    /\ b_out' = [kind |-> "panic", status |-> 0, www_authenticate |-> FALSE,
                 err |-> "none"]
    /\ b_pc' = "idle"
    /\ UNCHANGED b_err

Goto(pos) ==
    /\ b_pc' = pos
    /\ UNCHANGED <<b_err, b_out>>

\* a request arrives at handle
recv ==
    /\ b_pc = "idle"
    /\ \E path \in Paths, method \in Methods :
           b_req' = [path |-> path, method |-> method]
    /\ b_pc' = "route"
    /\ b_hash' = << >>
    /\ b_auth' = NoAuth
    /\ b_err' = "none"
    /\ b_out' = NoOut
    /\ b_handler' = << >>
    /\ b_mut' = << >>
    /\ b_blobs0' = b_blobs
    /\ UNCHANGED <<b_blobs, beside_blossom>>

\* route (lines 30-50)
route ==
    /\ b_pc = "route"
    /\ IF route_target(b_req.path) = "SignalNotBlossom"
       THEN /\ Raise("SignalNotBlossom")
            /\ UNCHANGED b_handler
       ELSE /\ b_handler' = Append(b_handler, route_target(b_req.path))
            /\ Goto(route_target(b_req.path))
    /\ UNCHANGED <<b_req, b_hash, b_auth, b_mut, b_blobs, b_blobs0,
                   beside_blossom>>

\* handle (lines 20-28), the Err arm
handle ==
    /\ b_pc = "handle"
    /\ b_out' = handle_err(b_err)
    /\ b_pc' = "idle"
    /\ UNCHANGED <<b_req, b_hash, b_auth, b_err, b_handler, b_mut, b_blobs,
                   b_blobs0, beside_blossom>>

\* ---- handle_hash
\* lines 108-118: OPTIONS, else parse the hash out of the path
handle_hash ==
    /\ b_pc = "handle_hash"
    /\ IF b_req.method = "OPTIONS"
       THEN /\ \E cors \in BOOLEAN : Return(options_response(cors))
            /\ UNCHANGED b_hash
       ELSE IF from_hex(skip_take(b_req.path, 1, 64)) = << >>
       THEN /\ Return(error_response("FromHex"))
            /\ UNCHANGED b_hash
       ELSE /\ b_hash' = from_hex(skip_take(b_req.path, 1, 64))[1]
            /\ Goto("metadata")
    /\ UNCHANGED <<b_req, b_auth, b_handler, b_mut, b_blobs, b_blobs0,
                   beside_blossom>>

\* line 120: filestore.metadata(hash).await?
metadata ==
    /\ b_pc = "metadata"
    /\ \/ b_hash \in b_blobs /\ Goto("hash_method")
       \/ b_hash \notin b_blobs /\ Raise("IoNotFound")
       \/ Raise("IoOther")
    /\ UNCHANGED <<b_req, b_hash, b_auth, b_handler, b_mut, b_blobs, b_blobs0,
                   beside_blossom>>

\* line 122: match *request.method()
hash_method ==
    /\ b_pc = "hash_method"
    /\ CASE b_req.method \in {"HEAD", "GET"} -> Goto("if_match")
         [] b_req.method = "DELETE" -> Goto("delete_auth")
         [] OTHER -> Return(Responded(405))
    /\ UNCHANGED <<b_req, b_hash, b_auth, b_handler, b_mut, b_blobs, b_blobs0,
                   beside_blossom>>

\* lines 125-139: If-Match
if_match ==
    /\ b_pc = "if_match"
    /\ \E h \in EtagHeaders :
           IF h = << >>
           THEN Goto("if_none_match")
           ELSE IF ~to_str_ok(h[1])
           THEN Raise("Other")
           ELSE IF \E part \in Elems(split(h[1], ",")) : slice_panics(part)
           THEN Panic
           ELSE IF \E part \in Elems(split(h[1], ",")) :
                       etag_matches(part, b_hash)
           THEN Goto("if_none_match")
           ELSE Return(Responded(412))
    /\ UNCHANGED <<b_req, b_hash, b_auth, b_handler, b_mut, b_blobs, b_blobs0,
                   beside_blossom>>

\* lines 143-160: If-None-Match and If-Modified-Since
if_none_match ==
    /\ b_pc = "if_none_match"
    /\ \E h \in EtagHeaders, modified_since \in BOOLEAN :
           IF h # << >> /\ ~to_str_ok(h[1])
           THEN Raise("Other")
           ELSE IF /\ h # << >>
                   /\ \E part \in Elems(split(h[1], ",")) : slice_panics(part)
           THEN Panic
           ELSE IF \/ /\ h # << >>
                      /\ \E part \in Elems(split(h[1], ",")) :
                             etag_matches(part, b_hash)
                   \/ modified_since
           THEN Return(Responded(304))
           ELSE Goto("respond")
    /\ UNCHANGED <<b_req, b_hash, b_auth, b_handler, b_mut, b_blobs, b_blobs0,
                   beside_blossom>>

\* lines 163-174: the normal response; GET retrieves the blob
respond ==
    /\ b_pc = "respond"
    /\ \/ Return(Responded(200))
       \/ /\ b_req.method = "GET"
          /\ \E e \in {"IoNotFound", "IoOther"} : Raise(e)
    /\ UNCHANGED <<b_req, b_hash, b_auth, b_handler, b_mut, b_blobs, b_blobs0,
                   beside_blossom>>

\* mutant: any verb authorizes the deletion
delete_authorized_any(auth) == auth.verb # "None"

\* line 178: auth_data.verb != Some(AuthVerb::Delete) is refused
delete_authorized(auth) == auth.verb = "Delete"

\* lines 177-183
delete_auth ==
    /\ b_pc = "delete_auth"
    /\ \/ /\ \E e \in {"BlossomAuthFailure", "Other"} : Raise(e)
          /\ UNCHANGED b_auth
       \/ \E a \in AuthData :
              /\ b_auth' = a
              /\ IF delete_authorized(a)
                 THEN Goto("delete")
                 ELSE Raise("BlossomAuthFailure")
    /\ UNCHANGED <<b_req, b_hash, b_handler, b_mut, b_blobs, b_blobs0,
                   beside_blossom>>

\* lines 185-190: filestore.delete(hash).await?
delete ==
    /\ b_pc = "delete"
    /\ \/ /\ b_blobs' = b_blobs \ {b_hash}
          /\ b_mut' = Append(b_mut, "delete")
          /\ Return(Responded(200))
       \/ /\ \E e \in {"IoNotFound", "IoOther"} : Raise(e)
          /\ UNCHANGED <<b_blobs, b_mut>>
    /\ UNCHANGED <<b_req, b_hash, b_auth, b_handler, b_blobs0, beside_blossom>>

\* ---- handle_upload
\* line 208: auth_data.verb != Some(AuthVerb::Upload) is refused
upload_authorized(auth) == auth.verb = "Upload"

\* lines 203-212
handle_upload ==
    /\ b_pc = "handle_upload"
    /\ IF b_req.method = "OPTIONS"
       THEN /\ \E cors \in BOOLEAN : Return(options_response(cors))
            /\ UNCHANGED b_auth
       ELSE \/ /\ \E e \in {"BlossomAuthFailure", "Other"} : Raise(e)
               /\ UNCHANGED b_auth
            \/ \E a \in AuthData :
                   /\ b_auth' = a
                   /\ IF upload_authorized(a)
                      THEN Goto("upload_method")
                      ELSE Raise("BlossomAuthFailure")
    /\ UNCHANGED <<b_req, b_hash, b_handler, b_mut, b_blobs, b_blobs0,
                   beside_blossom>>

\* line 222: expected_hash.is_none() is refused
has_expected_hash(auth) == auth.hash # << >>

\* lines 214-228 and 291-295
upload_method ==
    /\ b_pc = "upload_method"
    /\ CASE b_req.method = "HEAD" -> Return(Responded(501))
         [] b_req.method = "PUT" ->
                IF has_expected_hash(b_auth)
                THEN Goto("store")
                ELSE Raise("BlossomAuthFailure")
         [] OTHER -> Return(Responded(405))
    /\ UNCHANGED <<b_req, b_hash, b_auth, b_handler, b_mut, b_blobs, b_blobs0,
                   beside_blossom>>

\* lines 240-289: filestore.store(body, expected_hash).await?, then the blob
\* descriptor, whose construction can fail after the blob is stored
store ==
    /\ b_pc = "store"
    /\ \/ /\ b_blobs' = b_blobs \cup {b_auth.hash[1]}
          /\ b_mut' = Append(b_mut, "store")
          /\ \/ Return(Responded(200))
             \/ Raise("Other")
       \/ /\ \E e \in {"IoOther", "Other"} : Raise(e)
          /\ UNCHANGED <<b_blobs, b_mut>>
    /\ UNCHANGED <<b_req, b_hash, b_auth, b_handler, b_blobs0, beside_blossom>>

\* ---- handle_list (lines 299-323)
handle_list ==
    /\ b_pc = "handle_list"
    /\ IF b_req.method = "OPTIONS"
       THEN /\ \E cors \in BOOLEAN : Return(options_response(cors))
            /\ UNCHANGED b_auth
       ELSE \/ /\ \E e \in {"BlossomAuthFailure", "Other"} : Raise(e)
               /\ UNCHANGED b_auth
            \/ \E a \in AuthData :
                   /\ b_auth' = a
                   /\ IF a.verb # "List"
                      THEN Raise("BlossomAuthFailure")
                      ELSE Return(Responded(IF b_req.method = "GET"
                                            THEN 501 ELSE 405))
    /\ UNCHANGED <<b_req, b_hash, b_handler, b_mut, b_blobs, b_blobs0,
                   beside_blossom>>

\* ---- handle_mirror (lines 325-351)
handle_mirror ==
    /\ b_pc = "handle_mirror"
    /\ IF b_req.method = "OPTIONS"
       THEN /\ \E cors \in BOOLEAN : Return(options_response(cors))
            /\ UNCHANGED b_auth
       ELSE \/ /\ \E e \in {"BlossomAuthFailure", "Other"} : Raise(e)
               /\ UNCHANGED b_auth
            \/ \E a \in AuthData :
                   /\ b_auth' = a
                   /\ IF a.verb # "Mirror"
                      THEN Raise("BlossomAuthFailure")
                      ELSE Return(Responded(IF b_req.method = "PUT"
                                            THEN 501 ELSE 405))
    /\ UNCHANGED <<b_req, b_hash, b_handler, b_mut, b_blobs, b_blobs0,
                   beside_blossom>>

BlossomInit ==
    /\ StoreFresh
    /\ RelayIdle(FALSE)
    /\ \E blobs \in SUBSET Hashes : BlossomIdle(blobs)

BlossomNext ==
    \/ recv
    \/ route
    \/ handle
    \/ handle_hash
    \/ metadata
    \/ hash_method
    \/ if_match
    \/ if_none_match
    \/ respond
    \/ delete_auth
    \/ delete
    \/ handle_upload
    \/ upload_method
    \/ store
    \/ handle_list
    \/ handle_mirror

BlossomSpec == BlossomInit /\ [][BlossomNext]_vars

\* C22: no request changes the blob store without matching authorization.
\* filestore.delete is reached, and has been called, only by a DELETE
\* request in handle_hash for which verify_auth returned Ok with verb
\* Delete; filestore.store only by a PUT request in handle_upload for which
\* verify_auth returned Ok with verb Upload and an expected hash; a request
\* with another method, OPTIONS included, reaches neither, and a request
\* that called neither leaves the set of blobs as it found it.
C22_MutationNeedsAuthorization ==
    /\ (b_pc = "delete" \/ "delete" \in Elems(b_mut))
          => /\ b_auth.verb = "Delete"
             /\ b_req.method = "DELETE"
             /\ b_handler = <<"handle_hash">>
    /\ (b_pc = "store" \/ "store" \in Elems(b_mut))
          => /\ b_auth.verb = "Upload"
             /\ b_auth.hash # << >>
             /\ b_req.method = "PUT"
             /\ b_handler = <<"handle_upload">>
    /\ b_req.method \notin {"DELETE", "PUT"}
          => /\ b_mut = << >>
             /\ b_pc \notin {"delete", "store"}
    /\ b_mut = << >> => b_blobs = b_blobs0
    /\ Len(b_mut) <= 1

\* an authorized DELETE has removed a blob and was answered 200
C22_Witness ==
    /\ b_mut = <<"delete">>
    /\ b_auth.verb = "Delete"
    /\ b_req.method = "DELETE"
    /\ b_out = Responded(200)
    /\ b_hash \in b_blobs0
    /\ b_hash \notin b_blobs

\* the status error_response gives an error of a handler
StatusOf(e) ==
    CASE e = "BlossomAuthFailure" -> 401
      [] e = "FromHex" -> 400
      [] e = "IoNotFound" -> 404
      [] OTHER -> 500

\* handle has returned for the request b_req
Answered == b_pc = "idle" /\ b_req # NoReq

\* what C23 says of a request once handle is through with it, but for the
\* outcome being Ok or Err
ResolvedAsRouted ==
    /\ Len(b_handler) <= 1
    /\ b_handler = << >> <=> route_target(b_req.path) = "SignalNotBlossom"
    /\ b_handler # << >> => b_handler[1] = route_target(b_req.path)
    /\ b_out.kind = "Err"
          => /\ b_out.err = "SignalNotBlossom"
             /\ b_handler = << >>
    /\ b_handler = << >> => b_out.kind = "Err"
    /\ (b_err # "none" /\ b_err # "SignalNotBlossom")
          => /\ b_out.kind = "Ok"
             /\ b_out.status = StatusOf(b_err)
             /\ b_out.www_authenticate <=> b_err = "BlossomAuthFailure"

\* C23 (as claimed): handle resolves every request to exactly one outcome,
\* Ok(response) or Err: the path selects exactly one handler or else
\* Err(SignalNotBlossom) is returned; every other error of a handler comes
\* back as Ok with status 401 and WWW-Authenticate, 400, 404 or 500.
C23_EveryRequestResolved ==
    Answered => (b_out.kind \in {"Ok", "Err"} /\ ResolvedAsRouted)

\* ============================================================ main.rs
\* what main and its tasks leave alone
beside_relay == <<store_vars, blossom_vars>>

\* a `?` in main returns Err out of main
Exit(reason) ==
    /\ r_pc' = "exited"
    /\ r_exit' = reason

Continue(pos) ==
    /\ r_pc' = pos
    /\ UNCHANGED r_exit

\* lines 48-49: let store = Store::new(..)?; GLOBALS.store.set(store)
setup_store ==
    /\ r_pc = "store"
    /\ \/ r_store' = TRUE /\ Continue("tls")
       \/ Exit("store") /\ UNCHANGED r_store
    /\ UNCHANGED <<r_use_tls, r_listener, r_accepted, r_task, r_logged,
                   r_after_failure, beside_relay>>

\* lines 52-58: Some(tls::tls_acceptor(&config)?) if config.use_tls
tls_setup ==
    /\ r_pc = "tls"
    /\ \/ Continue("bind")
       \/ r_use_tls /\ Exit("tls")
    /\ UNCHANGED <<r_use_tls, r_store, r_listener, r_accepted, r_task,
                   r_logged, r_after_failure, beside_relay>>

\* line 61: TcpListener::bind(..).await?
bind ==
    /\ r_pc = "bind"
    /\ \/ r_listener' = TRUE /\ Continue("accept")
       \/ Exit("bind") /\ UNCHANGED r_listener
    /\ UNCHANGED <<r_use_tls, r_store, r_accepted, r_task, r_logged,
                   r_after_failure, beside_relay>>

\* lines 69-85: listener.accept().await?, then spawn the handshake task
\* (TLS) or call serve in the main task (plain)
accept ==
    /\ r_pc = "accept"
    /\ \/ /\ r_accepted < MaxConns
          /\ r_accepted' = r_accepted + 1
          /\ r_after_failure' =
                 IF \E c \in Conns : r_task[c] = "failed"
                 THEN r_after_failure \cup {r_accepted + 1}
                 ELSE r_after_failure
          /\ IF r_use_tls
             THEN /\ r_task' = [r_task EXCEPT ![r_accepted + 1] = "handshake"]
                  /\ Continue("accept")
             ELSE /\ Continue("serve")
                  /\ UNCHANGED r_task
       \/ /\ Exit("accept")
          /\ UNCHANGED <<r_accepted, r_after_failure, r_task>>
    /\ UNCHANGED <<r_use_tls, r_store, r_listener, r_logged, beside_relay>>

\* line 114: what serve returns
serve_returns == "Ok"

\* line 84 with lines 90-115: serve spawns the connection task and returns
serve_plain ==
    /\ r_pc = "serve"
    /\ r_task' = [r_task EXCEPT ![r_accepted] = "serving"]
    /\ IF serve_returns = "Ok" THEN Continue("accept") ELSE Exit("serve")
    /\ UNCHANGED <<r_use_tls, r_store, r_listener, r_accepted, r_logged,
                   r_after_failure, beside_relay>>

\* mutant: the handshake is awaited in the main task and its Err leaves main
tls_handshake_inline(c) ==
    /\ r_pc # "exited"
    /\ r_task[c] = "handshake"
    /\ \/ /\ r_task' = [r_task EXCEPT ![c] = "serving"]
          /\ UNCHANGED <<r_logged, r_pc, r_exit>>
       \/ /\ r_task' = [r_task EXCEPT ![c] = "failed"]
          /\ r_logged' = r_logged \cup {c}
          /\ Exit("handshake")
    /\ UNCHANGED <<r_use_tls, r_store, r_listener, r_accepted,
                   r_after_failure, beside_relay>>

\* lines 73-82: the spawned task: the handshake fails and is logged, or it
\* succeeds and serve spawns the connection task
tls_handshake(c) ==
    /\ r_pc # "exited"
    /\ r_task[c] = "handshake"
    /\ \/ /\ serve_returns = "Ok"
          /\ r_task' = [r_task EXCEPT ![c] = "serving"]
          /\ UNCHANGED r_logged
       \/ /\ r_task' = [r_task EXCEPT ![c] = "failed"]
          /\ r_logged' = r_logged \cup {c}
    /\ UNCHANGED <<r_pc, r_exit, r_use_tls, r_store, r_listener, r_accepted,
                   r_after_failure, beside_relay>>

\* lines 96-112: the task serve spawned: connection.await ends Ok, or with
\* an error that is logged, or with "Transport endpoint is not connected",
\* which is not
connection(c) ==
    /\ r_pc # "exited"
    /\ r_task[c] = "serving"
    /\ \/ /\ r_task' = [r_task EXCEPT ![c] = "closed"]
          /\ UNCHANGED r_logged
       \/ /\ r_task' = [r_task EXCEPT ![c] = "failed"]
          /\ r_logged' = r_logged \cup {c}
       \/ /\ r_task' = [r_task EXCEPT ![c] = "failed"]
          /\ UNCHANGED r_logged
    /\ UNCHANGED <<r_pc, r_exit, r_use_tls, r_store, r_listener, r_accepted,
                   r_after_failure, beside_relay>>

RelayInit ==
    /\ StoreFresh
    /\ BlossomIdle({})
    /\ \E use_tls \in BOOLEAN : RelayIdle(use_tls)

RelayNext ==
    \/ setup_store
    \/ tls_setup
    \/ bind
    \/ accept
    \/ serve_plain
    \/ \E c \in Conns : tls_handshake(c)
    \/ \E c \in Conns : connection(c)

RelaySpec == RelayInit /\ [][RelayNext]_vars

====
